---- MODULE Spec2Model ----
(***************************************************************************)
(* Model of the AutoCompost cloud control engine:                          *)
(*   - compost_calculations.py : the decision functions                    *)
(*   - mqtt_listener.py        : CompostMQTTListener (telemetry handling,  *)
(*                               status feedback, command publishing and   *)
(*                               the periodic stirrer thread)              *)
(* Temperatures and humidities are modelled as integers (degrees Celsius,  *)
(* percent); Python's None is the string "None" for tracked states and     *)
(* "NONE" for recommended actions.                                         *)
(***************************************************************************)
EXTENDS Integers, Sequences, FiniteSets, TLC

VARIABLES
    \* ---- decision engine under test (compost_calculations.py)
    temp,               \* temperature argument of the recommendation
    humidity,           \* humidity argument of the recommendation
    control,            \* result of get_combined_control_recommendation
    \* ---- CompostMQTTListener fields
    connected,          \* self.mqtt_client and self.mqtt_client.is_connected()
    last_fan_state,     \* self.last_fan_state
    last_lid_state,     \* self.last_lid_state
    last_stirrer_state, \* self.last_stirrer_state
    stirrer_running,    \* self.stirrer_running
    stirrer_lock,       \* holder of self.stirrer_lock (0 = free)
    pc,                 \* position of every stirrer_cycle thread
    \* ---- observation of the last handled telemetry reading
    msgSeq,             \* parity of the number of telemetry readings handled
    request,            \* per actuator: recommended action of the last reading
    reported,           \* per actuator: the last reading carried a device state
    sent,               \* per actuator: action handed to publish_command
    outcome,            \* per actuator: "none" | "ok" | "fail" publish result
    previous,           \* per actuator: outcome of the reading before the last
                        \* one when it made the same request, "-" otherwise
    malformed,          \* the last reading lacked a numeric temperature or
                        \* humidity
    \* ---- observation of the status feedback
    lastStatus,         \* the status message handled last: device, word,
                        \* timestamp, late (older than the one before it
                        \* for the same device), again (a duplicate of it)
    statusTs,           \* per device: timestamp of its last status message
    \* ---- time
    now,                \* the clock, in seconds
    wakeAt,             \* per thread: when its time.sleep returns
    timing,             \* times of the last START and STOP of the scheduler
                        \* and the gaps measured at them (-1: none yet)
    \* ---- observation of the stirrer scheduler
    stirrerLog,         \* the last two stirrer commands the scheduler issued
    stirrerPub,         \* result of the scheduler's pending publish_command
    missed,             \* the stirrer command whose dispatch failed last (the
                        \* publish failed, raised, or was skipped for want of
                        \* a connection), "-" after a successful one
    firstSince,         \* the first stirrer command issued since the last
                        \* successful on_connect, "-" when none yet
    observed            \* a stirrer status message was handled after the
                        \* scheduler's last publish

vars == <<temp, humidity, control, connected, last_fan_state, last_lid_state,
          last_stirrer_state, stirrer_running, stirrer_lock, pc, msgSeq,
          request, reported, sent, outcome, previous, malformed,
          lastStatus, statusTs, now, wakeAt, timing, stirrerLog,
          stirrerPub, missed, firstSince, observed>>

decisionVars == <<temp, humidity, control>>

listenerVars == <<connected, last_fan_state, last_lid_state,
                  last_stirrer_state, stirrer_running, stirrer_lock, pc>>

reactiveObs == <<msgSeq, request, reported, sent, outcome, previous,
                 malformed>>

statusObs == <<lastStatus, statusTs>>

clockVars == <<now, wakeAt, timing>>

stirrerObs == <<stirrerLog, stirrerPub>>

cycleObs == <<missed, firstSince, observed>>

(***************************************************************************)
(* Program constants                                                       *)
(***************************************************************************)
T_min == 55

T_max == 65

T_crit == 70

H_min == 50

H_max == 60

STIRRER_ON_DURATION == 300

STIRRER_OFF_DURATION == 1800

\* time.sleep(60) of the scheduler's exception handler
RETRY_DELAY == 60

(***************************************************************************)
(* Bounds of the model                                                     *)
(***************************************************************************)
Margin == 10

MaxThreads == 2

\* the clock stops at MaxTime
MaxTime == 2500

\* status messages carry the timestamps 1..MaxStamp
MaxStamp == 2

Temps == (T_min - Margin)..(T_crit + Margin)

Hums == (H_min - Margin)..(H_max + Margin)

(***************************************************************************)
(* compost_calculations.py                                                 *)
(***************************************************************************)
\* variant: a too_high reading starts the fan but leaves the lid alone
check_temperature_control_lid_kept(t) ==
    IF t > T_crit
    THEN [fan_action |-> "ON", lid_action |-> "OPEN", status |-> "critical_high"]
    ELSE IF t > T_max
    THEN [fan_action |-> "ON", lid_action |-> "NONE", status |-> "too_high"]
    ELSE IF t < T_min
    THEN [fan_action |-> "OFF", lid_action |-> "CLOSED", status |-> "too_low"]
    ELSE [fan_action |-> "NONE", lid_action |-> "NONE", status |-> "optimal"]

\* variant: a too_low reading stops the fan but leaves the lid alone
check_temperature_control_low_lid(t) ==
    IF t > T_crit
    THEN [fan_action |-> "ON", lid_action |-> "OPEN", status |-> "critical_high"]
    ELSE IF t > T_max
    THEN [fan_action |-> "ON", lid_action |-> "OPEN", status |-> "too_high"]
    ELSE IF t < T_min
    THEN [fan_action |-> "OFF", lid_action |-> "NONE", status |-> "too_low"]
    ELSE [fan_action |-> "NONE", lid_action |-> "NONE", status |-> "optimal"]

\* variant: the band boundaries compared with >= and <=
check_temperature_control_exclusive(t) ==
    IF t > T_crit
    THEN [fan_action |-> "ON", lid_action |-> "OPEN", status |-> "critical_high"]
    ELSE IF t >= T_max
    THEN [fan_action |-> "ON", lid_action |-> "OPEN", status |-> "too_high"]
    ELSE IF t <= T_min
    THEN [fan_action |-> "OFF", lid_action |-> "CLOSED", status |-> "too_low"]
    ELSE [fan_action |-> "NONE", lid_action |-> "NONE", status |-> "optimal"]

\* variant: the critical ceiling itself counted as critical
check_temperature_control_ceiling(t) ==
    IF t >= T_crit
    THEN [fan_action |-> "ON", lid_action |-> "OPEN", status |-> "critical_high"]
    ELSE IF t > T_max
    THEN [fan_action |-> "ON", lid_action |-> "OPEN", status |-> "too_high"]
    ELSE IF t < T_min
    THEN [fan_action |-> "OFF", lid_action |-> "CLOSED", status |-> "too_low"]
    ELSE [fan_action |-> "NONE", lid_action |-> "NONE", status |-> "optimal"]

check_temperature_control(t) ==
    IF t > T_crit
    THEN [fan_action |-> "ON", lid_action |-> "OPEN", status |-> "critical_high"]
    ELSE IF t > T_max
    THEN [fan_action |-> "ON", lid_action |-> "OPEN", status |-> "too_high"]
    ELSE IF t < T_min
    THEN [fan_action |-> "OFF", lid_action |-> "CLOSED", status |-> "too_low"]
    ELSE [fan_action |-> "NONE", lid_action |-> "NONE", status |-> "optimal"]

\* variant: the upper limit taken from config.FAN_HUMIDITY_THRESHOLD (80)
check_humidity_control_threshold(h) ==
    IF h > 80
    THEN [fan_action |-> "ON", status |-> "too_high"]
    ELSE IF h < H_min
    THEN [fan_action |-> "OFF", status |-> "too_low"]
    ELSE [fan_action |-> "NONE", status |-> "optimal"]

check_humidity_control(h) ==
    IF h > H_max
    THEN [fan_action |-> "ON", status |-> "too_high"]
    ELSE IF h < H_min
    THEN [fan_action |-> "OFF", status |-> "too_low"]
    ELSE [fan_action |-> "NONE", status |-> "optimal"]

\* variant: the priority reversed, humidity decides the fan when it can
get_combined_control_recommendation_humidity_first(t, h) ==
    LET temp_control == check_temperature_control(t)
        humidity_control == check_humidity_control(h)
        fan_action == IF humidity_control.fan_action # "NONE"
                      THEN humidity_control.fan_action
                      ELSE temp_control.fan_action
        lid_action == temp_control.lid_action
    IN  [fan_action |-> fan_action,
         lid_action |-> lid_action,
         temp_status |-> temp_control.status,
         humidity_status |-> humidity_control.status]

\* variant: high humidity opens the lid as well
get_combined_control_recommendation_humid_lid(t, h) ==
    LET temp_control == check_temperature_control(t)
        humidity_control == check_humidity_control(h)
        fan_action == IF temp_control.fan_action # "NONE"
                      THEN temp_control.fan_action
                      ELSE humidity_control.fan_action
        lid_action == IF temp_control.lid_action = "NONE"
                         /\ humidity_control.status = "too_high"
                      THEN "OPEN"
                      ELSE temp_control.lid_action
    IN  [fan_action |-> fan_action,
         lid_action |-> lid_action,
         temp_status |-> temp_control.status,
         humidity_status |-> humidity_control.status]

get_combined_control_recommendation(t, h) ==
    LET temp_control == check_temperature_control(t)
        humidity_control == check_humidity_control(h)
        fan_action == IF temp_control.fan_action # "NONE"
                      THEN temp_control.fan_action
                      ELSE humidity_control.fan_action
        lid_action == temp_control.lid_action
    IN  [fan_action |-> fan_action,
         lid_action |-> lid_action,
         temp_status |-> temp_control.status,
         humidity_status |-> humidity_control.status]

\* value of `control` before the function has been applied to the inputs
Pending ==
    [fan_action |-> "-", lid_action |-> "-",
     temp_status |-> "-", humidity_status |-> "-"]

(***************************************************************************)
(* Values exchanged with the device                                        *)
(***************************************************************************)
\* a key that the JSON object does not contain
Absent == "<absent>"

\* Python None as the value of a tracked state
NoneVal == "None"

\* str.upper() on the words the model sends
Upper(s) ==
    CASE s = "on" -> "ON"
      [] s = "off" -> "OFF"
      [] s = "open" -> "OPEN"
      [] s = "closed" -> "CLOSED"
      [] s = "running" -> "RUNNING"
      [] s = "stopped" -> "STOPPED"
      [] s = "jammed" -> "JAMMED"
      [] s = "close" -> "CLOSE"
      [] s = " on " -> " ON "
      [] OTHER -> s

\* str.strip() on the words the model sends
Strip(s) ==
    CASE s = " on " -> "on"
      [] s = " ON " -> "ON"
      [] OTHER -> s

\* Python truthiness of an optional string (dict.get result or tracked state)
Truthy(s) == s \notin {Absent, NoneVal, ""}

\* a or b, for optional strings
OrElse(a, b) == IF Truthy(a) THEN a ELSE b

(***************************************************************************)
(* CompostMQTTListener.parse_json_message                                  *)
(* A message is a record of the JSON object's fields; temperature and      *)
(* humidity are [kind, v] with kind "num" | "bool" | "str" | "absent"; v is *)
(* the value Python's comparisons see (True compares as 1).                *)
(***************************************************************************)
Num(v) == [kind |-> "num", v |-> v]

\* the JSON literal true
BoolTrue == [kind |-> "bool", v |-> 1]

NotNumeric == [kind |-> "str", v |-> 0]

Missing == [kind |-> "absent", v |-> 0]

\* a JSON value that is not a string (a number, true, null) in a field the
\* code treats as a string
NotAString == "<number>"

\* the timestamp of the parsed reading: "parsed" from an ISO 8601 string,
\* "now" when the field is absent, empty, not a string or not ISO 8601
\* (ValueError and AttributeError are caught, lines 101-103)
parsed_timestamp(ts) == IF ts = "iso" THEN "parsed" ELSE "now"

parse_json_message(m) ==
    IF \/ m.temperature.kind = "absent" \/ m.humidity.kind = "absent"
       \/ NotAString \in {m.relay, m.lid, m.stirrer}
    THEN [ok |-> FALSE, temperature |-> m.temperature, humidity |-> m.humidity,
          timestamp |-> "-", fan_state |-> Absent, lid_state |-> Absent,
          relay |-> m.relay, fan |-> m.fan, lid |-> m.lid]
    ELSE [ok |-> TRUE, temperature |-> m.temperature, humidity |-> m.humidity,
          timestamp |-> parsed_timestamp(m.timestamp),
          fan_state |-> IF m.relay # Absent THEN Upper(m.relay) ELSE Absent,
          lid_state |-> IF m.lid # Absent THEN Upper(m.lid) ELSE Absent,
          relay |-> m.relay, fan |-> m.fan, lid |-> m.lid]

(***************************************************************************)
(* CompostMQTTListener.check_thresholds_and_control                        *)
(***************************************************************************)
\* data.get('fan_state') or data.get('relay') or data.get('fan')
reported_fan_state(data) == OrElse(data.fan_state, OrElse(data.relay, data.fan))

\* data.get('lid_state') or data.get('lid')
reported_lid_state(data) == OrElse(data.lid_state, data.lid)

current_fan_state(data, tracked) ==
    IF Truthy(reported_fan_state(data))
    THEN Upper(Strip(reported_fan_state(data)))
    ELSE OrElse(tracked, "UNKNOWN")

current_lid_state(data, tracked) ==
    IF Truthy(reported_lid_state(data))
    THEN Upper(Strip(reported_lid_state(data)))
    ELSE OrElse(tracked, "UNKNOWN")

\* variant: the fan is commanded without a look at its current state
fan_command_unconditional(fan_action, current) ==
    IF fan_action \in {"ON", "OFF"} THEN fan_action ELSE "-"

\* the fan branch: is publish_command called, and with which action
fan_command(fan_action, current) ==
    IF fan_action = "ON" /\ current # "ON" THEN "ON"
    ELSE IF fan_action = "OFF" /\ current = "ON" THEN "OFF"
    ELSE "-"

\* variant: the lid is closed with the word of the status feedback
lid_command_close(lid_action, current) ==
    IF lid_action = "OPEN" /\ current # "OPEN" THEN "OPEN"
    ELSE IF lid_action = "CLOSED" /\ current = "OPEN" THEN "CLOSE"
    ELSE "-"

\* the lid branch
lid_command(lid_action, current) ==
    IF lid_action = "OPEN" /\ current # "OPEN" THEN "OPEN"
    ELSE IF lid_action = "CLOSED" /\ current = "OPEN" THEN "CLOSED"
    ELSE "-"

(***************************************************************************)
(* CompostMQTTListener.publish_command: "ok" when the client is connected  *)
(* and publish returns rc = 0, "fail" otherwise (not connected, rc # 0 or  *)
(* an exception); brokerOk is the transport's answer.                      *)
(***************************************************************************)
publish_command(isConnected, brokerOk) ==
    IF ~isConnected THEN "fail"
    ELSE IF brokerOk THEN "ok"
    ELSE "fail"

\* variant: the commanded value is never written to the tracked state
record_after_publish_forgotten(tracked, action, result) == tracked

\* the tracked state after a branch that called publish_command(action):
\* the assignment that follows the call, whatever the call did
record_after_publish(tracked, action, result) == action

(***************************************************************************)
(* Inputs of the model                                                     *)
(***************************************************************************)
Actuators == {"fan", "lid"}

\* <<temperature, humidity>> of the readings sent: one for every combination
\* of branches of the two evaluations that gives a different recommendation
SampleInputs ==
    {<<T_min - 1, H_max + 1>>, <<T_crit + 1, H_min - 1>>, <<T_max, H_min - 1>>,
     <<T_max, H_min>>, <<T_min, H_max + 1>>}

\* the device states a reading may carry: <<relay, fan, lid>>
DeviceFields ==
    {<<Absent, Absent, Absent>>, <<"on", Absent, Absent>>,
     <<"OFF", Absent, Absent>>, <<Absent, Absent, "open">>,
     <<Absent, Absent, "CLOSED">>, <<"OFF", Absent, "CLOSED">>}

\* telemetry with numeric temperature and humidity
GoodReadings ==
    {[temperature |-> Num(i[1]), humidity |-> Num(i[2]),
      relay |-> f[1], fan |-> f[2], lid |-> f[3],
      stirrer |-> Absent, timestamp |-> "iso"] :
        i \in SampleInputs, f \in DeviceFields}

\* telemetry with a missing or non-numeric required field
BadReadings ==
    {[temperature |-> x, humidity |-> Num(H_min),
      relay |-> Absent, fan |-> Absent, lid |-> Absent,
      stirrer |-> Absent, timestamp |-> "iso"] :
        x \in {Missing, NotNumeric, BoolTrue}}
    \cup
    {[temperature |-> Num(T_max + 1), humidity |-> x,
      relay |-> Absent, fan |-> Absent, lid |-> Absent,
      stirrer |-> Absent, timestamp |-> "iso"] :
        x \in {Missing, NotNumeric, BoolTrue}}

\* words of the "status" field sent on the status topics of fan and lid
\* (Absent: the message has no "status" field)
StatusWords == {"on", "STOPPED", "OPENED", "CLOSED", Absent}

\* words of the "status" field sent on the stirrer status topic
StirrerStatusWords == {"running", "STOPPED", "START", "STOP"}

\* a handled message with the answers of its collaborators: the database
\* (saveRaises) and the transport (fanOk, lidOk)
TelemetryInputs ==
    {[m |-> m, saveRaises |-> FALSE, fanOk |-> a[1], lidOk |-> a[2]] :
        m \in GoodReadings,
        a \in {<<TRUE, TRUE>>, <<TRUE, FALSE>>, <<FALSE, TRUE>>}}
    \cup
    {[m |-> m, saveRaises |-> FALSE, fanOk |-> TRUE, lidOk |-> TRUE] :
        m \in BadReadings}
    \cup
    {[m |-> m, saveRaises |-> TRUE, fanOk |-> TRUE, lidOk |-> TRUE] :
        m \in {g \in GoodReadings : g.relay = Absent /\ g.lid = Absent}}

\* readings with numeric temperature and humidity and every kind of
\* timestamp and of device field: <<relay, lid, stirrer>>
ExtraFields ==
    {<<Absent, Absent, Absent>>, <<"on", "open", "on">>,
     <<NotAString, Absent, Absent>>, <<Absent, NotAString, Absent>>,
     <<Absent, Absent, NotAString>>}

Timestamps == {"iso", "not-iso", "", NotAString, Absent}

NumericReadings ==
    {[temperature |-> Num(i[1]), humidity |-> Num(i[2]),
      relay |-> f[1], fan |-> Absent, lid |-> f[2], stirrer |-> f[3],
      timestamp |-> ts] :
        i \in SampleInputs, f \in ExtraFields, ts \in Timestamps}

NoObs == [a \in Actuators |-> "-"]

(***************************************************************************)
(* on_message, topic compost/sensor/data:                                  *)
(*   parse_json_message, save_sensor_data, check_thresholds_and_control.   *)
(* saveRaises: save_sensor_data lets an exception escape (its rollback     *)
(* fails); fanOk, lidOk: the transport's answer to each publish.           *)
(***************************************************************************)
\* the comparisons of the decision functions accept the value (a number or
\* a bool); any other type raises TypeError, caught by on_message
Comparable(x) == x.kind \in {"num", "bool"}

\* variant: a branch that publishes nothing forgets the tracked state
tracked_after_forgetful(tracked, cmd, res) ==
    IF cmd = "-" THEN NoneVal ELSE record_after_publish(tracked, cmd, res)

\* the tracked state after an actuator's branch: assigned only next to a
\* publish_command call, left alone by the branches that skip
tracked_after(tracked, cmd, res) ==
    IF cmd = "-" THEN tracked ELSE record_after_publish(tracked, cmd, res)

\* the body of check_thresholds_and_control, given the recommendation
ControlStep(data, handled, rec, fanOk, lidOk) ==
    \E fanCmd \in {IF handled
                   THEN fan_command(rec.fan_action,
                                    current_fan_state(data, last_fan_state))
                   ELSE "-"},
       lidCmd \in {IF handled
                   THEN lid_command(rec.lid_action,
                                    current_lid_state(data, last_lid_state))
                   ELSE "-"} :
      \E fanRes \in {IF fanCmd = "-" THEN "none"
                     ELSE publish_command(connected, fanOk)},
         lidRes \in {IF lidCmd = "-" THEN "none"
                     ELSE publish_command(connected, lidOk)} :
        /\ last_fan_state' = tracked_after(last_fan_state, fanCmd, fanRes)
        /\ last_lid_state' = tracked_after(last_lid_state, lidCmd, lidRes)
        /\ request' = [fan |-> rec.fan_action, lid |-> rec.lid_action]
        /\ reported' = [fan |-> handled /\ Truthy(reported_fan_state(data)),
                        lid |-> handled /\ Truthy(reported_lid_state(data))]
        /\ sent' = [fan |-> fanCmd, lid |-> lidCmd]
        /\ outcome' = [fan |-> fanRes, lid |-> lidRes]
        /\ previous' = [a \in Actuators |->
                          IF request[a] # "-" /\ request'[a] = request[a]
                          THEN outcome[a] ELSE "-"]

OnTelemetry(m, saveRaises, fanOk, lidOk) ==
    /\ \E data \in {parse_json_message(m)} :
         \E handled \in {/\ data.ok
                         /\ ~saveRaises
                         /\ Comparable(data.temperature)
                         /\ Comparable(data.humidity)} :
           \E rec \in {IF handled
                       THEN get_combined_control_recommendation(
                                data.temperature.v, data.humidity.v)
                       ELSE Pending} :
             ControlStep(data, handled, rec, fanOk, lidOk)
    /\ msgSeq' = 1 - msgSeq
    /\ malformed' = (m.temperature.kind # "num" \/ m.humidity.kind # "num")
    /\ UNCHANGED <<connected, last_stirrer_state, stirrer_running,
                   stirrer_lock, pc>>
    /\ UNCHANGED decisionVars
    /\ UNCHANGED statusObs
    /\ UNCHANGED clockVars
    /\ UNCHANGED stirrerObs
    /\ UNCHANGED cycleObs

(***************************************************************************)
(* on_message, topic compost/status/<device>: handle_device_status.        *)
(***************************************************************************)
status_map(status) ==
    CASE status = "RUNNING" -> "ON"
      [] status = "START" -> "ON"
      [] status = "STOPPED" -> "OFF"
      [] status = "STOP" -> "OFF"
      [] status = "OPENED" -> "OPEN"
      [] status = "CLOSED" -> "CLOSE"
      [] OTHER -> status

\* status_data.get('status', ''): a message without the field gives ''
status_field(word) == IF word = Absent THEN "" ELSE word

\* variant: the lid rule left out
normalized_status_no_lid_rule(device_type, word) ==
    status_map(Upper(status_field(word)))

normalized_status(device_type, word) ==
    LET n == status_map(Upper(status_field(word)))
    IN  IF device_type = "lid" /\ n = "CLOSE" THEN "CLOSED" ELSE n

\* the observation of an actuator's last reading is dropped once a status
\* message has changed the tracked state of that actuator
ForgetIfChanged(obs, a, changed, blank) ==
    IF changed THEN [obs EXCEPT ![a] = blank] ELSE obs

Devices == {"fan", "lid", "stirrer"}

NoStatus == [device |-> "-", word |-> "-", ts |-> 0, late |-> FALSE,
             again |-> FALSE]

\* variant: a status older than the last one of the device is not applied
status_update_newer_only(tracked, normalized, timestamp, latest) ==
    IF timestamp < latest THEN tracked ELSE normalized

\* "Update internal state tracking": the assignment, which looks neither at
\* the tracked value nor at the parsed timestamp
status_update(tracked, normalized, timestamp, latest) == normalized

\* handle_device_status for a message {"status": word, "timestamp": ts}
handle_device_status(device_type, word, ts) ==
    LET n == status_update(IF device_type = "fan" THEN last_fan_state
                           ELSE IF device_type = "lid" THEN last_lid_state
                           ELSE last_stirrer_state,
                           normalized_status(device_type, word), ts,
                           statusTs[device_type])
        fanChanged == device_type = "fan" /\ n # last_fan_state
        lidChanged == device_type = "lid" /\ n # last_lid_state
        Forget(obs, blank) ==
            ForgetIfChanged(ForgetIfChanged(obs, "fan", fanChanged, blank),
                            "lid", lidChanged, blank)
    IN  /\ last_fan_state' = IF device_type = "fan" THEN n ELSE last_fan_state
        /\ last_lid_state' = IF device_type = "lid" THEN n ELSE last_lid_state
        /\ last_stirrer_state' =
               IF device_type = "stirrer" THEN n ELSE last_stirrer_state
        /\ request' = Forget(request, "-")
        /\ reported' = Forget(reported, FALSE)
        /\ sent' = Forget(sent, "-")
        /\ outcome' = Forget(outcome, "none")
        /\ previous' = Forget(previous, "-")
        /\ UNCHANGED <<connected, stirrer_running, stirrer_lock, pc, msgSeq,
                       malformed>>
        /\ UNCHANGED decisionVars
        /\ UNCHANGED clockVars
        /\ UNCHANGED stirrerObs
        /\ observed' = (observed \/ device_type = "stirrer")
        /\ UNCHANGED <<missed, firstSince>>

\* a status message handled, its timestamp left out of the observation
OnStatus(device_type, word) ==
    /\ handle_device_status(device_type, word, statusTs[device_type])
    /\ UNCHANGED statusObs

\* a status message handled and observed
OnStatusAt(device_type, word, ts) ==
    /\ handle_device_status(device_type, word, ts)
    /\ lastStatus' = [device |-> device_type, word |-> word, ts |-> ts,
                      late |-> ts < statusTs[device_type],
                      again |-> /\ lastStatus.device = device_type
                                /\ lastStatus.word = word
                                /\ lastStatus.ts = ts]
    /\ statusTs' = [statusTs EXCEPT ![device_type] = ts]

(***************************************************************************)
(* Connection callbacks and the periodic stirrer                           *)
(***************************************************************************)
Threads == 1..MaxThreads

IdleThreads == {t \in Threads : pc[t] = "idle"}

\* the thread object created by the next threading.Thread(...) call
NewThread == CHOOSE t \in IdleThreads : \A u \in IdleThreads : t <= u

\* variant: every call starts the cycle again at its first transition
start_periodic_stirrer_restart ==
    /\ stirrer_running' = TRUE
    /\ pc' = [t \in Threads |-> IF t = 1 THEN "on_enter" ELSE pc[t]]

\* start_periodic_stirrer: the guarded thread start (lines 330-334)
start_periodic_stirrer ==
    IF ~stirrer_running
    THEN /\ stirrer_running' = TRUE
         /\ pc' = [pc EXCEPT ![NewThread] = "on_enter"]
    ELSE UNCHANGED <<stirrer_running, pc>>

\* on_connect(rc): subscribes and starts the stirrer when rc = 0
OnConnect(rc) ==
    /\ ~connected
    /\ stirrer_running \/ IdleThreads # {}
    /\ IF rc = 0
       THEN /\ connected' = TRUE
            /\ start_periodic_stirrer
       ELSE UNCHANGED <<connected, stirrer_running, pc>>
    /\ UNCHANGED <<last_fan_state, last_lid_state, last_stirrer_state,
                   stirrer_lock>>
    /\ UNCHANGED decisionVars
    /\ UNCHANGED statusObs
    /\ UNCHANGED clockVars
    /\ UNCHANGED reactiveObs
    /\ UNCHANGED stirrerObs
    /\ firstSince' = IF rc = 0 THEN "-" ELSE firstSince
    /\ UNCHANGED <<missed, observed>>

\* the broker connection is lost (on_disconnect only logs)
OnDisconnect ==
    /\ connected
    /\ connected' = FALSE
    /\ UNCHANGED <<last_fan_state, last_lid_state, last_stirrer_state,
                   stirrer_running, stirrer_lock, pc>>
    /\ UNCHANGED decisionVars
    /\ UNCHANGED statusObs
    /\ UNCHANGED clockVars
    /\ UNCHANGED reactiveObs
    /\ UNCHANGED stirrerObs
    /\ UNCHANGED cycleObs

\* stop_periodic_stirrer: clears the flag, the thread is not told
StopPeriodicStirrer ==
    /\ stirrer_running
    /\ IdleThreads # {}
    /\ stirrer_running' = FALSE
    /\ UNCHANGED <<connected, last_fan_state, last_lid_state,
                   last_stirrer_state, stirrer_lock, pc>>
    /\ UNCHANGED decisionVars
    /\ UNCHANGED statusObs
    /\ UNCHANGED clockVars
    /\ UNCHANGED reactiveObs
    /\ UNCHANGED stirrerObs
    /\ UNCHANGED cycleObs

\* the command and the tracked value of each phase of stirrer_cycle
PhaseCommand(phase) == IF phase = "on" THEN "START" ELSE "STOP"

PhaseState(phase) == IF phase = "on" THEN "RUNNING" ELSE "STOPPED"

PhaseOf(p) == IF p \in {"on_enter", "on_publish", "on_record", "on_sleep"}
              THEN "on" ELSE "off"

\* variant: the OFF sleep completes a period of STIRRER_OFF_DURATION
sleep_duration_period(phase) ==
    IF phase = "on" THEN STIRRER_ON_DURATION
    ELSE STIRRER_OFF_DURATION - STIRRER_ON_DURATION

\* the argument of the time.sleep that ends each phase
sleep_duration(phase) ==
    IF phase = "on" THEN STIRRER_ON_DURATION ELSE STIRRER_OFF_DURATION

NoTiming == [start |-> -1, stop |-> -1, startGap |-> -1, stopGap |-> -1,
             onSpan |-> -1]

Since(t) == IF t = -1 THEN -1 ELSE now - t

\* the observation of a command published at the time now
Timed(command) ==
    IF command = "START"
    THEN [timing EXCEPT !.start = now, !.startGap = Since(timing.start)]
    ELSE [timing EXCEPT !.stop = now, !.stopGap = Since(timing.stop),
                        !.onSpan = Since(timing.start)]

LastTwo(log) == IF Len(log) <= 2 THEN log ELSE SubSeq(log, Len(log) - 1, Len(log))

\* with self.stirrer_lock: if self.mqtt_client and is_connected(): ...
\* (a disconnected client skips the section and goes to sleep)
StirrerEnter(t) ==
    /\ pc[t] \in {"on_enter", "off_enter"}
    /\ stirrer_lock = 0
    /\ IF connected
       THEN /\ stirrer_lock' = t
            /\ pc' = [pc EXCEPT ![t] = PhaseOf(pc[t]) \o "_publish"]
       ELSE /\ stirrer_lock' = 0
            /\ pc' = [pc EXCEPT ![t] = PhaseOf(pc[t]) \o "_sleep"]
    /\ UNCHANGED <<connected, last_fan_state, last_lid_state,
                   last_stirrer_state, stirrer_running>>
    /\ UNCHANGED decisionVars
    /\ UNCHANGED statusObs
    /\ wakeAt' = IF connected THEN wakeAt
                 ELSE [wakeAt EXCEPT
                          ![t] = now + sleep_duration(PhaseOf(pc[t]))]
    /\ UNCHANGED <<now, timing>>
    /\ UNCHANGED reactiveObs
    /\ UNCHANGED stirrerObs
    /\ missed' = IF connected THEN missed
                 ELSE PhaseCommand(PhaseOf(pc[t]))
    /\ UNCHANGED <<firstSince, observed>>

\* self.publish_command(config.MQTT_CMD_STIRRER_TOPIC, {"action": ...})
StirrerPublish(t, brokerOk) ==
    /\ pc[t] \in {"on_publish", "off_publish"}
    /\ stirrerLog' = LastTwo(Append(stirrerLog, PhaseCommand(PhaseOf(pc[t]))))
    /\ stirrerPub' = publish_command(connected, brokerOk)
    /\ pc' = [pc EXCEPT ![t] = PhaseOf(pc[t]) \o "_record"]
    /\ UNCHANGED <<connected, last_fan_state, last_lid_state,
                   last_stirrer_state, stirrer_running, stirrer_lock>>
    /\ UNCHANGED decisionVars
    /\ UNCHANGED statusObs
    /\ timing' = Timed(PhaseCommand(PhaseOf(pc[t])))
    /\ UNCHANGED <<now, wakeAt>>
    /\ UNCHANGED reactiveObs
    /\ missed' = IF publish_command(connected, brokerOk) = "fail"
                 THEN PhaseCommand(PhaseOf(pc[t])) ELSE "-"
    /\ firstSince' = IF firstSince = "-" THEN PhaseCommand(PhaseOf(pc[t]))
                     ELSE firstSince
    /\ observed' = FALSE

\* self.last_stirrer_state = 'RUNNING' | 'STOPPED'; the lock is released
StirrerRecord(t) ==
    /\ pc[t] \in {"on_record", "off_record"}
    /\ last_stirrer_state' =
           record_after_publish(last_stirrer_state, PhaseState(PhaseOf(pc[t])),
                                stirrerPub)
    /\ stirrerPub' = "none"
    /\ stirrer_lock' = 0
    /\ pc' = [pc EXCEPT ![t] = PhaseOf(pc[t]) \o "_sleep"]
    /\ UNCHANGED <<connected, last_fan_state, last_lid_state, stirrer_running,
                   stirrerLog>>
    /\ UNCHANGED decisionVars
    /\ UNCHANGED statusObs
    /\ wakeAt' = [wakeAt EXCEPT ![t] = now + sleep_duration(PhaseOf(pc[t]))]
    /\ UNCHANGED <<now, timing>>
    /\ UNCHANGED reactiveObs
    /\ UNCHANGED cycleObs

\* variant: no handler, the exception ends the thread
error_handler_exits(p) == "exited"

\* except Exception: log, time.sleep(60), and the while loop goes on
error_handler(p) == "backoff"

\* an exception raised inside the locked section of a phase transition: the
\* with statement releases the lock, the handler sleeps RETRY_DELAY
StirrerRaise(t) ==
    /\ pc[t] \in {"on_publish", "off_publish"}
    /\ stirrer_lock' = 0
    /\ pc' = [pc EXCEPT ![t] = error_handler(pc[t])]
    /\ wakeAt' = [wakeAt EXCEPT ![t] = now + RETRY_DELAY]
    /\ UNCHANGED <<now, timing>>
    /\ UNCHANGED <<connected, last_fan_state, last_lid_state,
                   last_stirrer_state, stirrer_running>>
    /\ UNCHANGED decisionVars
    /\ UNCHANGED reactiveObs
    /\ UNCHANGED statusObs
    /\ UNCHANGED stirrerObs
    /\ missed' = PhaseCommand(PhaseOf(pc[t]))
    /\ UNCHANGED <<firstSince, observed>>

\* time.sleep returns: after the ON sleep the OFF phase, after the OFF sleep
\* and after the handler's sleep the top of the loop
StirrerWake(t) ==
    /\ pc[t] \in {"on_sleep", "off_sleep", "backoff"}
    /\ pc' = [pc EXCEPT ![t] = IF pc[t] = "on_sleep" THEN "off_enter"
                               ELSE "on_enter"]
    /\ UNCHANGED <<connected, last_fan_state, last_lid_state,
                   last_stirrer_state, stirrer_running, stirrer_lock>>
    /\ UNCHANGED decisionVars
    /\ UNCHANGED statusObs
    /\ UNCHANGED clockVars
    /\ UNCHANGED reactiveObs
    /\ UNCHANGED stirrerObs
    /\ UNCHANGED cycleObs

Sleeping == {t \in Threads : pc[t] \in {"on_sleep", "off_sleep", "backoff"}}

\* time.sleep returns when its duration has passed
StirrerWakeOnTime(t) ==
    /\ now = wakeAt[t]
    /\ StirrerWake(t)

\* one second passes: every started thread is asleep and none is due (the
\* statements between two sleeps take no time)
Tick ==
    /\ now < MaxTime
    /\ Sleeping # {}
    /\ \A t \in Threads : pc[t] = "idle" \/ (t \in Sleeping /\ now < wakeAt[t])
    /\ now' = now + 1
    /\ UNCHANGED <<wakeAt, timing>>
    /\ UNCHANGED listenerVars
    /\ UNCHANGED decisionVars
    /\ UNCHANGED reactiveObs
    /\ UNCHANGED statusObs
    /\ UNCHANGED stirrerObs
    /\ UNCHANGED cycleObs

(***************************************************************************)
(* The decision engine applied to drawn inputs                             *)
(***************************************************************************)
Recommend ==
    /\ control = Pending
    /\ control' = get_combined_control_recommendation(temp, humidity)
    /\ UNCHANGED <<temp, humidity>>
    /\ UNCHANGED listenerVars
    /\ UNCHANGED statusObs
    /\ UNCHANGED clockVars
    /\ UNCHANGED reactiveObs
    /\ UNCHANGED stirrerObs
    /\ UNCHANGED cycleObs

NewInputs ==
    /\ control # Pending
    /\ temp' \in Temps
    /\ humidity' \in Hums
    /\ control' = Pending
    /\ UNCHANGED listenerVars
    /\ UNCHANGED statusObs
    /\ UNCHANGED clockVars
    /\ UNCHANGED reactiveObs
    /\ UNCHANGED stirrerObs
    /\ UNCHANGED cycleObs

(***************************************************************************)
(* Specifications                                                          *)
(***************************************************************************)
\* CompostMQTTListener.__init__
InitListener ==
    /\ connected = FALSE
    /\ last_fan_state = NoneVal
    /\ last_lid_state = NoneVal
    /\ last_stirrer_state = NoneVal
    /\ stirrer_running = FALSE
    /\ stirrer_lock = 0
    /\ pc = [t \in Threads |-> "idle"]
    /\ msgSeq = 0
    /\ request = NoObs
    /\ reported = [a \in Actuators |-> FALSE]
    /\ sent = NoObs
    /\ outcome = [a \in Actuators |-> "none"]
    /\ previous = NoObs
    /\ malformed = FALSE
    /\ lastStatus = NoStatus
    /\ statusTs = [d \in Devices |-> 0]
    /\ now = 0
    /\ wakeAt = [t \in Threads |-> 0]
    /\ timing = NoTiming
    /\ stirrerLog = <<>>
    /\ stirrerPub = "none"
    /\ missed = "-"
    /\ firstSince = "-"
    /\ observed = FALSE

InitDecision ==
    /\ temp \in Temps
    /\ humidity \in Hums
    /\ control = Pending
    /\ InitListener

Init ==
    /\ temp = T_min
    /\ humidity = H_min
    /\ control = Pending
    /\ InitListener

NextDecision == Recommend \/ NewInputs

\* the decision functions applied to every input of the bounded ranges
SpecDecision == InitDecision /\ [][NextDecision]_vars

NextControl ==
    \/ \E i \in TelemetryInputs :
          OnTelemetry(i.m, i.saveRaises, i.fanOk, i.lidOk)
    \/ \E d \in Actuators, w \in StatusWords : OnStatus(d, w)
    \/ \E rc \in {0, 5} : OnConnect(rc)
    \/ OnDisconnect

\* the reactive path: telemetry and fan/lid status feedback
SpecControl == Init /\ [][NextControl]_vars

NextStirrer ==
    \/ \E rc \in {0, 5} : OnConnect(rc)
    \/ OnDisconnect
    \/ \E w \in StirrerStatusWords : OnStatus("stirrer", w)
    \/ \E t \in Threads : StirrerEnter(t)
    \/ \E t \in Threads, brokerOk \in BOOLEAN : StirrerPublish(t, brokerOk)
    \/ \E t \in Threads : StirrerRecord(t)
    \/ \E t \in Threads : StirrerWake(t)
    \/ \E t \in Threads : StirrerRaise(t)

\* the periodic stirrer thread, connection events and stirrer status feedback,
\* as the service runs them (nothing in the service calls
\* stop_periodic_stirrer)
SpecStirrer == Init /\ [][NextStirrer]_vars

\* a step of the thread t
ThreadStep(t) ==
    \/ StirrerEnter(t)
    \/ \E brokerOk \in BOOLEAN : StirrerPublish(t, brokerOk)
    \/ StirrerRecord(t)
    \/ StirrerWake(t)
    \/ StirrerRaise(t)

\* the same under fair scheduling: a thread that can step eventually does
SpecStirrerFair == SpecStirrer /\ \A t \in Threads : WF_vars(ThreadStep(t))

\* words of the "status" field sent in the status feedback specification
StatusFeed == {"running", "START", "stopped", "STOP", "OPENED", "CLOSED",
               "close", "jammed", Absent}

NextStatus ==
    \E d \in Devices, w \in StatusFeed, ts \in 1..MaxStamp :
        OnStatusAt(d, w, ts)

\* status feedback alone: every sequence of status messages on the three
\* status topics
SpecStatus == Init /\ [][NextStatus]_vars

\* readings without device fields, saved and published without a fault
PlainInputs ==
    {i \in TelemetryInputs :
        /\ i.m \in GoodReadings
        /\ i.m.relay = Absent /\ i.m.lid = Absent
        /\ ~i.saveRaises /\ i.fanOk /\ i.lidOk}

NextService ==
    \/ \E i \in PlainInputs : OnTelemetry(i.m, i.saveRaises, i.fanOk, i.lidOk)
    \/ OnConnect(0)
    \/ OnDisconnect
    \/ \E t \in Threads : StirrerEnter(t)
    \/ \E t \in Threads : StirrerPublish(t, TRUE)
    \/ \E t \in Threads : StirrerRecord(t)
    \/ \E t \in Threads : StirrerWake(t)

\* the three publishers together: the telemetry handler (fan, lid) and the
\* stirrer thread
SpecService == Init /\ [][NextService]_vars

NextTimed ==
    \/ OnConnect(0)
    \/ \E t \in Threads : StirrerEnter(t)
    \/ \E t \in Threads : StirrerPublish(t, TRUE)
    \/ \E t \in Threads : StirrerRecord(t)
    \/ \E t \in Threads : StirrerWakeOnTime(t)
    \/ Tick

\* the scheduler against the clock in a run without failures: the client
\* stays connected and every publish succeeds
SpecTimed == Init /\ [][NextTimed]_vars

NextParse ==
    \/ \E m \in NumericReadings : OnTelemetry(m, FALSE, TRUE, TRUE)
    \/ OnConnect(0)
    \/ OnDisconnect

\* numeric readings of every shape, with the database and the broker
\* answering without a fault
SpecParse == Init /\ [][NextParse]_vars

NextStirrerApi == NextStirrer \/ StopPeriodicStirrer

\* the same with stop_periodic_stirrer called by an embedding program
SpecStirrerApi == Init /\ [][NextStirrerApi]_vars

(***************************************************************************)
(* Properties of the decision engine (SpecDecision)                        *)
(***************************************************************************)
Decided == control # Pending

\* C1: every temperature above T_max, the ones above T_crit included, gives
\* fan ON and lid OPEN whatever the humidity.
C1_HotOpensAndVents ==
    (Decided /\ temp > T_max) =>
        (control.fan_action = "ON" /\ control.lid_action = "OPEN")

C1_Witness ==
    /\ Decided
    /\ temp > T_crit
    /\ humidity < H_min
    /\ control.fan_action = "ON"
    /\ control.lid_action = "OPEN"

\* C2: every temperature below T_min gives fan OFF and lid CLOSED whatever
\* the humidity, also when the humidity alone would start the fan.
C2_ColdClosesAndStops ==
    (Decided /\ temp < T_min) =>
        (control.fan_action = "OFF" /\ control.lid_action = "CLOSED")

C2_Witness ==
    /\ Decided
    /\ temp < T_min
    /\ humidity > H_max
    /\ check_humidity_control(humidity).fan_action = "ON"
    /\ control.lid_action = "CLOSED"

\* C3: priority law. A non-NONE fan action of the temperature evaluation is
\* the combined fan action for every humidity; the humidity evaluation
\* decides the fan only when the temperature's fan action is NONE.
C3_TemperaturePriority ==
    Decided =>
        LET tf == check_temperature_control(temp).fan_action
            hf == check_humidity_control(humidity).fan_action
        IN  /\ tf # "NONE" =>
                  /\ control.fan_action = tf
                  /\ \A h \in Hums :
                        get_combined_control_recommendation(temp, h).fan_action = tf
            /\ tf = "NONE" => control.fan_action = hf
            /\ (control.fan_action # tf) => tf = "NONE"

C3_Witness ==
    /\ Decided
    /\ check_temperature_control(temp).fan_action = "ON"
    /\ check_humidity_control(humidity).fan_action = "OFF"
    /\ control.fan_action = "ON"

C5_InBandNoAction ==
    (Decided /\ temp >= T_min /\ temp <= T_max
             /\ humidity >= H_min /\ humidity <= H_max) =>
        (control.fan_action = "NONE" /\ control.lid_action = "NONE")

C5_Witness ==
    /\ Decided
    /\ temp \in {T_min, T_max}
    /\ humidity \in {H_min, H_max}
    /\ control.fan_action = "NONE"
    /\ control.lid_action = "NONE"

Tracked(a) == IF a = "fan" THEN last_fan_state ELSE last_lid_state

Commands == {"ON", "OFF", "OPEN", "CLOSED"}

\* C7 as stated: two consecutive readings asking the same state of an
\* actuator, with no status message changing its tracked state in between,
\* publish at most one command for it.
C7_AtMostOnePublish_AsStated ==
    \A a \in Actuators :
        (request[a] \in Commands /\ previous[a] = "ok") => outcome[a] # "ok"

\* C7 amended: the same, for a second reading that carries no device state
\* of its own for that actuator.
C7_AtMostOnePublish ==
    \A a \in Actuators :
        (request[a] \in Commands /\ previous[a] = "ok" /\ ~reported[a])
            => outcome[a] = "none"

C7_Witness ==
    /\ request["fan"] = "ON"
    /\ previous["fan"] = "ok"
    /\ ~reported["fan"]
    /\ outcome["fan"] = "none"
    /\ last_fan_state = "ON"

\* C8 as stated: when the tracked state of an actuator equals the recommended
\* state, handling the reading publishes nothing for that actuator.
C8_PublishOnlyOnDifference_AsStated ==
    [][(msgSeq' # msgSeq) =>
         \A a \in Actuators :
             (request'[a] \in Commands /\ Tracked(a) = request'[a])
                 => outcome'[a] # "ok"]_vars

\* C8 amended: for a reading that carries no device state of its own for the
\* actuator, a tracked state equal to the recommended state means that
\* nothing is published for that actuator.
C8_PublishOnlyOnDifference ==
    [][(msgSeq' # msgSeq) =>
         \A a \in Actuators :
             (request'[a] \in Commands /\ ~reported'[a]
                  /\ Tracked(a) = request'[a])
                 => (outcome'[a] = "none" /\ sent'[a] = "-")]_vars

C8_Witness ==
    /\ request["lid"] = "OPEN"
    /\ ~reported["lid"]
    /\ outcome["lid"] = "none"
    /\ last_lid_state = "OPEN"
    /\ request["fan"] = "ON"
    /\ ~reported["fan"]
    /\ outcome["fan"] = "none"
    /\ last_fan_state = "ON"

\* C9: a failed publish leaves the tracked state of the actuator unchanged,
\* for the fan and lid commands of the reactive path and for the stirrer
\* commands of the scheduler.
C9_FailedPublishKeepsState ==
    [][/\ (msgSeq' # msgSeq) =>
             \A a \in Actuators :
                 outcome'[a] = "fail" => Tracked(a)' = Tracked(a)
       /\ \A t \in Threads :
             (pc[t] \in {"on_record", "off_record"} /\ pc'[t] # pc[t]
                  /\ stirrerPub = "fail")
                 => last_stirrer_state' = last_stirrer_state]_vars

\* C13: a reading whose temperature or humidity is missing or is not a
\* number publishes no command and changes no tracked actuator state.
C13_MalformedDropped ==
    [][(msgSeq' # msgSeq /\ malformed') =>
         /\ \A a \in Actuators : sent'[a] = "-" /\ Tracked(a)' = Tracked(a)
         /\ last_stirrer_state' = last_stirrer_state]_vars

\* what a reader of the tracked state of an actuator gets: state or 'UNKNOWN'
Reads(a) == OrElse(Tracked(a), "UNKNOWN")

\* C15: the tracked state of every actuator reads UNKNOWN at process start,
\* and once a status observation or a command has given it another value it
\* never reads UNKNOWN again.
C15_NeverBackToUnknown ==
    /\ \A a \in Actuators : Reads(a) = "UNKNOWN"
    /\ [][\A a \in Actuators :
             Reads(a) # "UNKNOWN" => Reads(a)' # "UNKNOWN"]_vars

\* C20: a reading whose recommended action for an actuator differs from the
\* tracked state of that actuator (UNKNOWN included) and which carries no
\* device state of its own attempts to publish that action.
C20_PublishWhenDiffers ==
    [][(msgSeq' # msgSeq) =>
         \A a \in Actuators :
             (request'[a] \in Commands /\ ~reported'[a]
                  /\ OrElse(Tracked(a), "UNKNOWN") # request'[a])
                 => sent'[a] = request'[a]]_vars

\* C29: a reading inside both optimal bands (recommendation NONE, NONE)
\* publishes nothing and leaves fan, lid and stirrer as they are; any
\* reading leaves the tracked state of an actuator for which it issued no
\* command unchanged, and never touches the stirrer entry.
C29_HysteresisFrame ==
    [][(msgSeq' # msgSeq) =>
         /\ \A a \in Actuators : sent'[a] = "-" => Tracked(a)' = Tracked(a)
         /\ last_stirrer_state' = last_stirrer_state
         /\ (request'["fan"] = "NONE" /\ request'["lid"] = "NONE") =>
                \A a \in Actuators :
                    /\ sent'[a] = "-"
                    /\ outcome'[a] = "none"
                    /\ Tracked(a)' = Tracked(a)]_vars

C29_Witness ==
    /\ request = [fan |-> "NONE", lid |-> "NONE"]
    /\ sent = NoObs
    /\ ~reported["fan"]
    /\ ~reported["lid"]
    /\ last_fan_state = "ON"
    /\ last_lid_state = "OPEN"

(***************************************************************************)
(* Properties of the stirrer scheduler (SpecStirrer)                       *)
(***************************************************************************)
\* C10: the stirrer commands issued by the scheduler alternate START, STOP,
\* START, ...: two consecutive commands are never of the same type.
C10_StirrerAlternates ==
    Len(stirrerLog) = 2 => stirrerLog[1] # stirrerLog[2]

(***************************************************************************)
(* Scenarios of test_control_logic.py (SpecDecision)                       *)
(***************************************************************************)
\* C16 as stated: temperature 70 with humidity 70 gives fan ON, lid OPEN and
\* the critical temperature tag.
C16_SeventyIsCritical_AsStated ==
    (Decided /\ temp = 70 /\ humidity = 70) =>
        /\ control.fan_action = "ON"
        /\ control.lid_action = "OPEN"
        /\ control.temp_status = "critical_high"

\* C16 amended: temperature 70 with humidity 70 gives fan ON, lid OPEN and
\* the too_high tag; the critical tag, distinct from too_high, is given to
\* the temperatures strictly above 70 only.
C16_SeventyIsTooHigh ==
    /\ (Decided /\ temp = 70 /\ humidity = 70) =>
           /\ control.fan_action = "ON"
           /\ control.lid_action = "OPEN"
           /\ control.temp_status = "too_high"
    /\ (Decided /\ temp > T_max) =>
           /\ control.temp_status \in {"too_high", "critical_high"}
           /\ (control.temp_status = "critical_high") <=> (temp > 70)

C16_Witness ==
    /\ Decided
    /\ temp = 70
    /\ humidity = 70
    /\ control.temp_status = "too_high"
    /\ control.fan_action = "ON"

\* C17: as the expected results of the test state, humidity 70 with
\* temperature 60 turns the fan ON and opens the lid.
C17_HumidityOpensLid ==
    (Decided /\ temp = 60 /\ humidity = 70) =>
        (control.fan_action = "ON" /\ control.lid_action = "OPEN")

(***************************************************************************)
(* Properties of the status feedback (SpecStatus)                          *)
(***************************************************************************)
StateOf(device) ==
    IF device = "fan" THEN last_fan_state
    ELSE IF device = "lid" THEN last_lid_state
    ELSE last_stirrer_state

\* C14: after any sequence of status messages, the tracked state of the
\* actuator of the message handled last is the (normalized) value of that
\* message, whatever the state was before and whatever the timestamps:
\* late and duplicate messages are applied like any other.
C14_LastStatusWins ==
    lastStatus.device # "-" =>
        StateOf(lastStatus.device) =
            normalized_status(lastStatus.device, lastStatus.word)

C14_Witness ==
    /\ lastStatus.device = "fan"
    /\ lastStatus.late
    /\ lastStatus.word = "stopped"
    /\ last_fan_state = "OFF"
    /\ statusTs["fan"] < MaxStamp

\* C19 as stated: after a status string s the tracked state is norm(s): s in
\* upper case, with RUNNING and START mapped to ON, STOPPED and STOP to OFF,
\* OPENED to OPEN, CLOSED to CLOSE (CLOSED for the lid), any other value
\* left as it is.
C19_StoredNormalized_AsStated ==
    (lastStatus.device # "-" /\ lastStatus.word # Absent) =>
        LET s == Upper(lastStatus.word)
        IN  StateOf(lastStatus.device) =
              CASE s \in {"RUNNING", "START"} -> "ON"
                [] s \in {"STOPPED", "STOP"} -> "OFF"
                [] s = "OPENED" -> "OPEN"
                [] s = "CLOSED" ->
                     IF lastStatus.device = "lid" THEN "CLOSED" ELSE "CLOSE"
                [] OTHER -> s

\* C19 amended: the same, with both CLOSED and CLOSE stored as CLOSED on the
\* lid topic (and as CLOSE on the other topics).
C19_StoredNormalized ==
    (lastStatus.device # "-" /\ lastStatus.word # Absent) =>
        LET s == Upper(lastStatus.word)
        IN  StateOf(lastStatus.device) =
              CASE s \in {"RUNNING", "START"} -> "ON"
                [] s \in {"STOPPED", "STOP"} -> "OFF"
                [] s = "OPENED" -> "OPEN"
                [] s \in {"CLOSED", "CLOSE"} ->
                     IF lastStatus.device = "lid" THEN "CLOSED" ELSE "CLOSE"
                [] OTHER -> s

C19_Witness ==
    /\ lastStatus.device = "lid"
    /\ lastStatus.word = "close"
    /\ last_lid_state = "CLOSED"
    /\ last_fan_state = "JAMMED"
    /\ last_stirrer_state = "CLOSE"

(***************************************************************************)
(* Properties of the published commands (SpecService)                      *)
(***************************************************************************)
\* C18: every published command carries an action valid for its topic: ON or
\* OFF for the fan, OPEN or CLOSED for the lid, START or STOP for the
\* stirrer.
C18_ValidActions ==
    /\ sent["fan"] \in {"-", "ON", "OFF"}
    /\ sent["lid"] \in {"-", "OPEN", "CLOSED"}
    /\ \A i \in 1..Len(stirrerLog) : stirrerLog[i] \in {"START", "STOP"}

C18_Witness ==
    /\ sent["fan"] = "OFF"
    /\ sent["lid"] = "CLOSED"
    /\ stirrerLog = <<"START", "STOP">>

(***************************************************************************)
(* Properties of the scheduler's timing (SpecTimed)                        *)
(***************************************************************************)
\* C11: in a run without failures two consecutive START commands, and two
\* consecutive STOP commands, are exactly STIRRER_ON_DURATION +
\* STIRRER_OFF_DURATION seconds apart, and a STOP follows its START after
\* exactly STIRRER_ON_DURATION seconds.
C11_ExactPeriod ==
    /\ timing.startGap \in {-1, STIRRER_ON_DURATION + STIRRER_OFF_DURATION}
    /\ timing.stopGap \in {-1, STIRRER_ON_DURATION + STIRRER_OFF_DURATION}
    /\ timing.onSpan \in {-1, STIRRER_ON_DURATION}

C11_Witness ==
    /\ timing.startGap = 2100
    /\ timing.stopGap = 2100
    /\ timing.onSpan = 300
    /\ stirrerLog = <<"START", "STOP">>

(***************************************************************************)
(* Properties of the scheduler's loop (SpecStirrerFair)                    *)
(***************************************************************************)
AtTransition(t) == pc[t] \in {"on_enter", "off_enter"}

\* C12: a started scheduler thread never ends, and whatever error is raised
\* in a phase transition it always comes to its next phase transition and
\* gets through it: the loop neither exits nor stays anywhere for ever.
C12_LoopNeverStops ==
    /\ [][\A t \in Threads :
             pc[t] # "idle" => pc'[t] \notin {"idle", "exited"}]_vars
    /\ \A t \in Threads :
          /\ (pc[t] # "idle" /\ ~AtTransition(t)) ~> AtTransition(t)
          /\ AtTransition(t) ~> ~AtTransition(t)

C12_Witness ==
    /\ pc[1] = "on_publish"
    /\ wakeAt[1] = RETRY_DELAY

(***************************************************************************)
(* Properties of the scheduler under failures (SpecStirrer)                *)
(***************************************************************************)
\* C21: after a failed dispatch at a phase entry the scheduler sleeps the
\* retry delay and dispatches the same command again before it goes on to
\* the other phase: the next attempt after a failed START is a START, after
\* a failed STOP a STOP.
C21_FailedPhaseRetried ==
    [][\A t \in Threads :
         /\ (AtTransition(t) /\ pc'[t] # pc[t] /\ missed # "-")
                => PhaseCommand(PhaseOf(pc[t])) = missed
         /\ (pc[t] \notin {"idle", "backoff"} /\ pc'[t] # pc[t]
                 /\ missed' # "-" /\ missed' # missed)
                => /\ pc'[t] = "backoff"
                   /\ wakeAt'[t] = now + RETRY_DELAY]_vars

\* the thread t publishes a stirrer command in this step
Publishes(t) ==
    pc[t] \in {"on_publish", "off_publish"} /\ pc'[t] \in {"on_record", "off_record"}

\* C22: once shutdown has been signalled (stop_periodic_stirrer has cleared
\* the running flag) the scheduler publishes no further stirrer command.
C22_StopsAfterShutdown ==
    [][\A t \in Threads : ~stirrer_running => ~Publishes(t)]_vars

\* C24: the first stirrer command the scheduler issues is START, in every
\* interleaving with connection events.
C24_FirstCommandIsStart ==
    Len(stirrerLog) = 1 => stirrerLog[1] = "START"

\* C25: the status handler writes the stirrer entry only while no scheduler
\* thread is inside its locked section (the entry is written under its lock).
C25_WritesUnderLock ==
    [][(last_stirrer_state' # last_stirrer_state /\ pc' = pc)
           => stirrer_lock = 0]_vars

\* C26: a stirrer status handled after the scheduler has published a command
\* is not overwritten by the record of that command: the assignment that
\* follows the publish leaves an observation made since then in place.
C26_ObservationSupersedes ==
    [][\A t \in Threads :
         (pc[t] \in {"on_record", "off_record"} /\ pc'[t] # pc[t] /\ observed)
             => last_stirrer_state' = last_stirrer_state]_vars

\* C28: with recognised status words only, the tracked fan state reads ON,
\* OFF or UNKNOWN, the lid state OPEN, CLOSED or UNKNOWN and the stirrer
\* state RUNNING, STOPPED or UNKNOWN.
C28_TrackedDomains ==
    /\ OrElse(last_fan_state, "UNKNOWN") \in {"ON", "OFF", "UNKNOWN"}
    /\ OrElse(last_lid_state, "UNKNOWN") \in {"OPEN", "CLOSED", "UNKNOWN"}
    /\ OrElse(last_stirrer_state, "UNKNOWN")
           \in {"RUNNING", "STOPPED", "UNKNOWN"}

\* C30: at most one stirrer_cycle thread runs at any time, after any
\* sequence of connect, disconnect and stop_periodic_stirrer events.
C30_SingleLoop ==
    Cardinality({t \in Threads : pc[t] # "idle"}) <= 1

\* C23 as stated: the first stirrer command issued after a (re)connection is
\* START.
C23_RestartOnReconnect_AsStated ==
    firstSince # "STOP"

\* C23 amended: a reconnection does not restart the cycle: on_connect finds
\* the loop running, starts no thread and leaves every thread where it is,
\* so the first command after the reconnection is the one of the phase the
\* loop comes to next, START or STOP.
C23_ReconnectKeepsCycle ==
    [][(~connected /\ connected' /\ stirrer_running)
           => (pc' = pc /\ stirrer_running' /\ firstSince' = "-")]_vars

C23_Witness ==
    /\ connected
    /\ firstSince = "STOP"
    /\ stirrerLog = <<"START", "STOP">>
    /\ pc[1] = "off_record"

(***************************************************************************)
(* Properties of the telemetry parser (SpecParse)                          *)
(***************************************************************************)
\* C27: a reading with numeric temperature and humidity reaches the control
\* decision whatever its timestamp and its other fields.
C27_NumericAccepted ==
    [][(msgSeq' # msgSeq /\ ~malformed') =>
         \A a \in Actuators : request'[a] # "-"]_vars

====
